---- MODULE Spec2Model ----
(***************************************************************************)
(* Model of the Dataform workflow runner scripts/run_dataform_workflow_env *)
(* (the REST orchestrator) together with the remote Dataform service it    *)
(* talks to.  One process runs main(); the automation around it may start  *)
(* the process again once it has exited.                                   *)
(*                                                                         *)
(* The module also models two provisioning scripts, each under its own     *)
(* specification: scripts/bootstrap_projects (SpecBoot) and                *)
(* scripts/create_tf_backend_bucket (SpecBucket), with the gcloud commands *)
(* they run and the cloud resources those commands act on; and the         *)
(* submission pipeline of lakehouse_cli/dataproc (SpecDataproc).           *)
(***************************************************************************)
EXTENDS Integers, Sequences, FiniteSets, TLC

VARIABLES
    wfc,          \* remote WorkflowConfig (JSON object returned by GET)
    relc,         \* remote ReleaseConfig (JSON object returned by GET)
    nComp,        \* number of CompilationResults the service has created
    invState,     \* remote state of the invocation created by each process
    invActions,   \* remote per-action states of that invocation
    timeout_sec,  \* args.timeout_sec
    poll_sec,     \* args.poll_sec
    pc,           \* position of each process inside main()
    rel,          \* main: rel, the fetched ReleaseConfig
    comp_name,    \* main: comp_name
    inv_name,     \* main: inv_name
    state,        \* poll_until_done: state (last observed)
    elapsed,      \* poll_until_done: time.time() - start
    log,          \* trace of the requests and sleeps of the current run
    exitCode,     \* process exit status of the current run (Running if none)
    category,     \* how the current run ended
    message,      \* what the final die()/log line of the run reports
    runs,         \* number of runs started by each process
    audit,        \* whether the outcomes of the runs are being recorded
    seen,         \* recorded <<category, exit code>> of the runs that ended
    \* ---- scripts/bootstrap_projects.py
    projects,     \* cloud: whether the project of each environment exists
    billing,      \* cloud: whether billing is enabled on that project
    services,     \* cloud: the APIs enabled on that project
    confirm,      \* args.confirm
    labels,       \* the labels of the YAML configuration
    boot_pc,      \* position inside main() / bootstrap_env()
    env_i,        \* index of envp in env_projects
    cmds,         \* the commands run for the current environment, in order
    reported,     \* the lines reported for the current environment
    boot_exit,    \* exit status of main() (Running if none)
    boot_runs,    \* number of runs of the script
    cleanNow,     \* environments whose bootstrap fully succeeded in this run
    cleanBefore,  \* the same for the run before
    \* ---- scripts/create_tf_backend_bucket.py
    bucket,       \* cloud: the backend bucket ("absent", "plain", "versioned")
    tf_env,       \* args.env
    tf_pc,        \* position inside main() / create_bucket()
    tf_cmds,      \* the commands of the current run, in order
    tf_exit,      \* exit status of the current run (Running if none)
    tf_exits,     \* exit statuses of the runs that ended, in order
    tf_runs,      \* number of runs of the script
    \* ---- orchestration/src/lakehouse_cli/dataproc.py
    dp_file,      \* whether the local job file exists
    dp_env,       \* the fields of EnvConfig the pipeline reads
    dp_extra,     \* profile.extra_spark_properties
    dp_batch_id,  \* the batch_id argument
    dp_pc,        \* position inside submit_dataproc_serverless_pyspark
    dp_trace,     \* the steps made so far, in order, with their outcome
    dp_props,     \* properties, once built
    dp_gcs,       \* cloud: whether the job file is at gcs_job_uri
    dp_batches,   \* cloud: the batches submitted
    dp_ret        \* what the call returned or raised ("none" while running)

remoteVars == <<wfc, relc, nComp, invState, invActions>>
argVars    == <<timeout_sec, poll_sec, audit>>
localVars  == <<pc, rel, comp_name, inv_name, state, elapsed, log,
                exitCode, category, message, runs, seen>>
bootVars   == <<projects, billing, services, confirm, labels, boot_pc, env_i,
                cmds, reported, boot_exit, boot_runs, cleanNow, cleanBefore>>
bucketVars == <<bucket, tf_env, tf_pc, tf_cmds, tf_exit, tf_exits, tf_runs>>
dpVars     == <<dp_file, dp_env, dp_extra, dp_batch_id, dp_pc, dp_trace,
                dp_props, dp_gcs, dp_batches, dp_ret>>
\* the state of the other scripts, which a step of one script leaves alone
dataformVars == <<remoteVars, argVars, localVars>>
vars == <<wfc, relc, nComp, invState, invActions, timeout_sec, poll_sec,
          pc, rel, comp_name, inv_name, state, elapsed, log,
          exitCode, category, message, runs, audit, seen,
          bootVars, bucketVars, dpVars>>

----------------------------------------------------------------------------
(* Bounds of the model *)

MaxTimeout == 3      \* timeout_sec ranges over 0..MaxTimeout (time units)
MaxPoll    == 2      \* poll_sec ranges over 1..MaxPoll
MaxRuns    == 2      \* runs of main() one process makes
NumActions == 3      \* actions inside one invocation

Procs    == {1, 2}   \* processes that may run main()
SeqProcs == {1}      \* processes that run under Spec (one at a time)

----------------------------------------------------------------------------
(* JSON / Python values *)

NoneVal == "<None>"                       \* dict.get() of a missing key
\* variant: only a missing value counts as empty
Falsy_noneOnly(v) == v = NoneVal
\* variant: the emptiness test never fires
Falsy_never(v) == FALSE
Falsy(v) == v \in {NoneVal, ""}           \* Python `not v` for str | None
IsDict(v) == v = "{dict}"                 \* isinstance(v, dict)

RelName  == "releaseConfigs/release"
WfPath   == "workflowConfigs/workflow"
CompName(n) == "compilationResults/" \o ToString(n)
InvName(p)  == "workflowInvocations/" \o ToString(p)

Running == 0 - 1                             \* the process has not exited

\* HTTP statuses the service may answer with
Statuses == {200, 300, 500}

\* wire values of WorkflowInvocation.state; NoneVal: the field is absent.
\* CANCELING is a value of the API that the runner does not name.
WireStates == {NoneVal, "RUNNING", "CANCELING", "SUCCEEDED", "FAILED", "CANCELLED"}
WireTerminal == {"SUCCEEDED", "FAILED", "CANCELLED"}

\* the service only moves an invocation forward in its life cycle
Rank(w) == CASE w = NoneVal -> 0
             [] w = "RUNNING" -> 1
             [] w = "CANCELING" -> 2
             [] OTHER -> 3

NoActions == [a \in 1..NumActions |-> "PENDING"]
\* the first k actions failed, the others succeeded
ActionsFailed(k) == [a \in 1..NumActions |-> IF a <= k THEN "FAILED" ELSE "SUCCEEDED"]

\* one entry of the trace of a run
Ev(op, res, status, val, mask, at, dur) ==
    [op |-> op, res |-> res, status |-> status, val |-> val, mask |-> mask,
     at |-> at, dur |-> dur]

NoRel == [name |-> NoneVal, gitCommitish |-> NoneVal,
          codeCompilationConfig |-> NoneVal, releaseCompilationResult |-> NoneVal]

----------------------------------------------------------------------------
(* REST transport: http_get / http_post / http_patch *)

\* variant: only 5xx answers are treated as failures
HttpFailed_from500(status) == status >= 500

\* variant: only 4xx and 5xx answers are treated as failures
HttpFailed_from400(status) == status >= 400

HttpFailed(status) == status >= 300

\* variant: a conditional update, refused once the masked field has a value
ApplyPatch_ifEmpty(obj, mask, body) ==
    [f \in DOMAIN obj |->
        IF f \in mask /\ f \in DOMAIN body /\ obj[f] \in {NoneVal, ""}
          THEN body[f] ELSE obj[f]]

\* partial update as the service applies it: only the masked fields change
ApplyPatch(obj, mask, body) ==
    [f \in DOMAIN obj |-> IF f \in mask /\ f \in DOMAIN body THEN body[f] ELSE obj[f]]

----------------------------------------------------------------------------
(* Ending a run *)

\* variant: die() defaults to the code of a failed workflow
DefaultDieCode_failed == 1 + 2

\* variant: die() defaults to the success status
DefaultDieCode_zero == 1 - 1

DefaultDieCode == 1
UncaughtExceptionCode == 1

\* the process exits with `code`; `cat` names the way the run ended
Exit(p, code, cat, msg) ==
    /\ pc' = [pc EXCEPT ![p] = "done"]
    /\ exitCode' = [exitCode EXCEPT ![p] = code]
    /\ category' = [category EXCEPT ![p] = cat]
    /\ message' = [message EXCEPT ![p] = msg]
    /\ seen' = IF audit THEN seen \cup {<<cat, code>>} ELSE seen

Goto(p, label) ==
    /\ pc' = [pc EXCEPT ![p] = label]
    /\ UNCHANGED <<exitCode, category, message, seen>>

NoMsg == [state |-> NoneVal, actions |-> {}]

\* die(msg, code): log and raise SystemExit(code)
die(p, code, cat, msg) == Exit(p, code, cat, msg)

\* RuntimeError raised by a transport wrapper, caught nowhere
raise_RuntimeError(p) == Exit(p, UncaughtExceptionCode, "RemoteError", NoMsg)

Append1(p, e) == log' = [log EXCEPT ![p] = Append(@, e)]

----------------------------------------------------------------------------
(* The provisioning scripts: configuration and states where they do not run *)

\* order.get(env_name, 99) of _parse_projects
OtherRank == 99
EnvOrder(name) ==
    CASE name = "dev" -> 0
      [] name = "staging" -> 1
      [] name = "prod" -> 2
      [] OTHER -> OtherRank

\* list.sort(key=...): a stable sort, here by insertion
RECURSIVE InsertEnv(_, _)
InsertEnv(sorted, e) ==
    IF sorted = <<>> THEN <<e>>
    ELSE IF EnvOrder(Head(sorted)) <= EnvOrder(e)
      THEN <<Head(sorted)>> \o InsertEnv(Tail(sorted), e)
      ELSE <<e>> \o sorted

RECURSIVE SortEnvs(_)
SortEnvs(s) ==
    IF s = <<>> THEN <<>>
    ELSE InsertEnv(SortEnvs(SubSeq(s, 1, Len(s) - 1)), s[Len(s)])

\* the keys of `projects` in the order the YAML file lists them
YamlProjects == <<"prod", "dev">>

\* env_projects after _parse_projects: sorted dev -> staging -> prod
Envs == SortEnvs(YamlProjects)
EnvSet == {Envs[i] : i \in DOMAIN Envs}

\* the `apis` list of the YAML configuration
Apis == {"bigquery", "dataform"}

BootIdle ==
    /\ projects = [e \in EnvSet |-> FALSE]
    /\ billing = [e \in EnvSet |-> FALSE]
    /\ services = [e \in EnvSet |-> {}]
    /\ confirm = "NO"
    /\ labels = "{}"
    /\ boot_pc = "idle"
    /\ env_i = 1
    /\ cmds = <<>>
    /\ reported = {}
    /\ boot_exit = Running
    /\ boot_runs = 0
    /\ cleanNow = {}
    /\ cleanBefore = {}

BucketIdle ==
    /\ bucket = "absent"
    /\ tf_env = "dev"
    /\ tf_pc = "idle"
    /\ tf_cmds = <<>>
    /\ tf_exit = Running
    /\ tf_exits = <<>>
    /\ tf_runs = 0

\* the EnvConfig fields read by the pipeline, when nothing is configured
NoEnv == [iceberg_package |-> NoneVal, dataproc_temp_bucket |-> NoneVal,
          buckets_dataproc_temp |-> NoneVal, dataproc_temp_bucket_field |-> NoneVal]

DpIdle ==
    /\ dp_file = FALSE
    /\ dp_env = NoEnv
    /\ dp_extra = <<>>
    /\ dp_batch_id = NoneVal
    /\ dp_pc = "idle"
    /\ dp_trace = <<>>
    /\ dp_props = <<>>
    /\ dp_gcs = FALSE
    /\ dp_batches = {}
    /\ dp_ret = "none"

----------------------------------------------------------------------------
(* Initial state *)

Start ==
    /\ wfc \in [releaseConfig : {NoneVal, "", RelName}]
    /\ \E c \in {NoneVal, "", CompName(0)},
          g \in {NoneVal, "", "main"},
          k \in {NoneVal, "[list]", "{dict}"} :
          relc = [name |-> RelName, gitCommitish |-> g,
                  codeCompilationConfig |-> k, releaseCompilationResult |-> c]
    /\ nComp = 0
    /\ invState = [p \in Procs |-> "<absent>"]
    /\ invActions = [p \in Procs |-> NoActions]
    /\ timeout_sec \in 0..MaxTimeout
    /\ poll_sec \in 1..MaxPoll
    /\ pc = [p \in Procs |-> "get_wf"]
    /\ rel = [p \in Procs |-> NoRel]
    /\ comp_name = [p \in Procs |-> NoneVal]
    /\ inv_name = [p \in Procs |-> NoneVal]
    /\ state = [p \in Procs |-> NoneVal]
    /\ elapsed = [p \in Procs |-> 0]
    /\ log = [p \in Procs |-> <<>>]
    /\ exitCode = [p \in Procs |-> Running]
    /\ category = [p \in Procs |-> "none"]
    /\ message = [p \in Procs |-> NoMsg]
    /\ runs = [p \in Procs |-> 1]
    /\ seen = {}
    /\ BootIdle
    /\ BucketIdle
    /\ DpIdle

Init == Start /\ audit = FALSE

\* the same program, with the outcome of every run recorded in `seen`
InitAudit == Start /\ audit = TRUE

----------------------------------------------------------------------------
(* main(), one action per remote request and the local code that follows it *)

\* main: wf = get_workflow_config(...); release_cfg_name = wf.get("releaseConfig")
get_workflow_config(p) ==
    /\ pc[p] = "get_wf"
    /\ \E status \in Statuses :
        /\ Append1(p, Ev("GET", "workflowConfig", status, WfPath, {}, 0, 0))
        /\ IF HttpFailed(status)
             THEN raise_RuntimeError(p)
             ELSE IF Falsy(wfc.releaseConfig)
                    THEN die(p, DefaultDieCode, "ConfigError", NoMsg)
                    ELSE Goto(p, "get_rel")
    /\ UNCHANGED <<remoteVars, argVars, bootVars, bucketVars, dpVars, rel, comp_name, inv_name, state, elapsed, runs>>

\* variant: the invocation is created whatever the reference is
NextAfterRelease_noBootstrap(release_comp) == "invoke"

\* variant: the bootstrap runs whatever the reference is
NextAfterRelease_alwaysBootstrap(release_comp) == "compile"

\* main: `if not release_comp:` chooses between the bootstrap and the invocation
NextAfterRelease(release_comp) ==
    IF Falsy(release_comp) THEN "compile" ELSE "invoke"

\* main: rel = get_release_config(...); release_comp = rel.get(...)
get_release_config(p) ==
    /\ pc[p] = "get_rel"
    /\ \E status \in Statuses :
        /\ Append1(p, Ev("GET", "releaseConfig", status, wfc.releaseConfig, {}, 0, 0))
        /\ IF HttpFailed(status)
             THEN /\ raise_RuntimeError(p)
                  /\ UNCHANGED rel
             ELSE /\ rel' = [rel EXCEPT ![p] = relc]
                  /\ Goto(p, NextAfterRelease(relc.releaseCompilationResult))
    /\ UNCHANGED <<remoteVars, argVars, bootVars, bucketVars, dpVars, comp_name, inv_name, state, elapsed, runs>>

\* variant: only gitCommitish is validated
ReleaseSettingsError_gitOnly(release_cfg) ==
    IF release_cfg.gitCommitish \in {NoneVal, ""} THEN "gitCommitish" ELSE "ok"

\* the two validations made before the POST
ReleaseSettingsError(release_cfg) ==
    IF Falsy(release_cfg.gitCommitish) THEN "gitCommitish"
    ELSE IF ~IsDict(release_cfg.codeCompilationConfig) THEN "codeCompilationConfig"
    ELSE "ok"

\* variant: main goes on to the invocation without patching
NextAfterCreate_noPatch == "invoke"

\* where main continues once comp_name is known
NextAfterCreate == "patch"

create_compilation_result_for_release(p) ==
    /\ pc[p] = "compile"
    /\ IF ReleaseSettingsError(rel[p]) # "ok"
         THEN /\ die(p, DefaultDieCode, "ConfigError", NoMsg)
              /\ UNCHANGED <<log, nComp, comp_name>>
         ELSE \E status \in Statuses :
                IF HttpFailed(status)
                  THEN /\ Append1(p, Ev("POST", "compilationResults", status,
                                        NoneVal, {}, 0, 0))
                       /\ raise_RuntimeError(p)
                       /\ UNCHANGED <<nComp, comp_name>>
                  ELSE \E name \in {NoneVal, "", CompName(nComp + 1)} :
                         /\ nComp' = nComp + 1
                         /\ Append1(p, Ev("POST", "compilationResults", status,
                                          name, {}, 0, 0))
                         /\ IF Falsy(name)
                              THEN /\ die(p, DefaultDieCode, "ProtocolError", NoMsg)
                                   /\ UNCHANGED comp_name
                              ELSE /\ comp_name' = [comp_name EXCEPT ![p] = name]
                                   /\ Goto(p, NextAfterCreate)
    /\ UNCHANGED <<wfc, relc, invState, invActions, argVars, bootVars, bucketVars, dpVars, rel, inv_name,
                   state, elapsed, runs>>

\* variant: the mask names another field
UpdateMask_wrongField == {"gitCommitish"}

\* ?updateMask=... of the PATCH url
UpdateMask == {"releaseCompilationResult"}

\* variant: the two values of the body are exchanged
PatchBody_swapped(release_cfg_name, compilation_result_name) ==
    [name |-> compilation_result_name, releaseCompilationResult |-> release_cfg_name]

\* body of the PATCH
PatchBody(release_cfg_name, compilation_result_name) ==
    [name |-> release_cfg_name, releaseCompilationResult |-> compilation_result_name]

patch_release_config_set_compilation(p) ==
    /\ pc[p] = "patch"
    /\ \E status \in Statuses :
        /\ Append1(p, Ev("PATCH", "releaseConfig", status,
                         PatchBody(wfc.releaseConfig, comp_name[p]).releaseCompilationResult,
                         UpdateMask, 0, 0))
        /\ IF HttpFailed(status)
             THEN /\ raise_RuntimeError(p)
                  /\ UNCHANGED relc
             ELSE /\ relc' = ApplyPatch(relc, UpdateMask,
                                        PatchBody(wfc.releaseConfig, comp_name[p]))
                  /\ Goto(p, "invoke")
    /\ UNCHANGED <<wfc, nComp, invState, invActions, argVars, bootVars, bucketVars, dpVars, rel, comp_name,
                   inv_name, state, elapsed, runs>>

create_workflow_invocation(p) ==
    /\ pc[p] = "invoke"
    /\ \E status \in Statuses :
        IF HttpFailed(status)
          THEN /\ Append1(p, Ev("POST", "workflowInvocations", status, NoneVal, {}, 0, 0))
               /\ raise_RuntimeError(p)
               /\ UNCHANGED <<invState, inv_name, elapsed>>
          ELSE \E name \in {NoneVal, InvName(p)} :
                 /\ Append1(p, Ev("POST", "workflowInvocations", status, name, {}, 0, 0))
                 /\ invState' = [invState EXCEPT ![p] = NoneVal]
                 /\ IF Falsy(name)
                      THEN /\ die(p, DefaultDieCode, "ProtocolError", NoMsg)
                           /\ UNCHANGED <<inv_name, elapsed>>
                      ELSE /\ inv_name' = [inv_name EXCEPT ![p] = name]
                           \* poll_until_done: start = time.time()
                           /\ elapsed' = [elapsed EXCEPT ![p] = 0]
                           /\ Goto(p, "poll")
    /\ UNCHANGED <<wfc, relc, nComp, invActions, argVars, bootVars, bucketVars, dpVars, rel, comp_name, state, runs>>

----------------------------------------------------------------------------
(* poll_until_done *)

\* state = inv.get("state", "STATE_UNSPECIFIED")
StateOf(wire) == IF wire = NoneVal THEN "STATE_UNSPECIFIED" ELSE wire

\* variant: every state that is not a known live one ends the loop
IsTerminal_unlessLive(st) == st \notin {"RUNNING", "STATE_UNSPECIFIED"}

IsTerminal(st) == st \in {"SUCCEEDED", "FAILED", "CANCELLED"}

\* variant: the budget is given one more time unit
TimedOut_late(el, timeout) == el > timeout + 1

\* variant: the comparison is not strict
TimedOut_atBoundary(el, timeout) == el >= timeout

\* time.time() - start > timeout_sec
TimedOut(el, timeout) == el > timeout

FailedCode == 3
TimeoutCode == 4

\* variant: the timeout is checked before the state is looked at
PollOutcome_timeoutFirst(st, el, timeout) ==
    IF el > timeout THEN "die_timeout"
    ELSE IF st \in {"SUCCEEDED", "FAILED", "CANCELLED"}
      THEN IF st = "SUCCEEDED" THEN "return" ELSE "die_failed"
      ELSE "sleep"

\* variant: CANCELLED is not recognised as terminal
PollOutcome_cancelledLive(st, el, timeout) ==
    IF st \in {"SUCCEEDED", "FAILED"}
      THEN IF st = "SUCCEEDED" THEN "return" ELSE "die_failed"
      ELSE IF el > timeout THEN "die_timeout" ELSE "sleep"

\* variant: a FAILED invocation is waited for like a live one
PollOutcome_failedLive(st, el, timeout) ==
    IF st \in {"SUCCEEDED", "CANCELLED"}
      THEN IF st = "SUCCEEDED" THEN "return" ELSE "die_failed"
      ELSE IF el > timeout THEN "die_timeout" ELSE "sleep"

\* what one iteration of the loop does with the state it has read
PollOutcome(st, el, timeout) ==
    IF IsTerminal(st)
      THEN IF st = "SUCCEEDED" THEN "return" ELSE "die_failed"
      ELSE IF TimedOut(el, timeout) THEN "die_timeout" ELSE "sleep"

\* one iteration of `while True:` up to the sleep
get_workflow_invocation(p) ==
    /\ pc[p] = "poll"
    /\ \E status \in Statuses :
        IF HttpFailed(status)
          THEN /\ Append1(p, Ev("GET", "workflowInvocation", status, NoneVal, {},
                                elapsed[p], 0))
               /\ raise_RuntimeError(p)
               /\ UNCHANGED state
          ELSE LET st == StateOf(invState[p])
                   out == PollOutcome(st, elapsed[p], timeout_sec)
               IN /\ Append1(p, Ev("GET", "workflowInvocation", status, st, {},
                                   elapsed[p], 0))
                  /\ state' = [state EXCEPT ![p] = st]
                  /\ CASE out = "return" ->
                            Exit(p, 0, "Success", [state |-> st, actions |-> {}])
                       [] out = "die_failed" ->
                            die(p, FailedCode, "WorkflowFailed",
                                [state |-> st, actions |-> {}])
                       [] out = "die_timeout" ->
                            die(p, TimeoutCode, "WorkflowTimeout", NoMsg)
                       [] OTHER -> Goto(p, "sleep")
    /\ UNCHANGED <<remoteVars, argVars, bootVars, bucketVars, dpVars, rel, comp_name, inv_name, elapsed, runs>>

\* time.sleep(poll_sec)
sleep(p) ==
    /\ pc[p] = "sleep"
    /\ Append1(p, Ev("SLEEP", "none", 0, NoneVal, {}, elapsed[p], poll_sec))
    /\ elapsed' = [elapsed EXCEPT ![p] = @ + poll_sec]
    /\ Goto(p, "poll")
    /\ UNCHANGED <<remoteVars, argVars, bootVars, bucketVars, dpVars, rel, comp_name, inv_name, state, runs>>

----------------------------------------------------------------------------
(* Environment *)

\* the service moves a live invocation to another state; the runner can see
\* the change at its next GET only, so the step is taken when a GET is due
ServerProgress(p) ==
    /\ pc[p] = "poll"
    /\ invState[p] \in WireStates \ WireTerminal
    /\ \E w \in WireStates :
        /\ Rank(w) > Rank(invState[p])
        /\ invState' = [invState EXCEPT ![p] = w]
        /\ IF w \in {"FAILED", "CANCELLED"}
             THEN \E k \in 0..NumActions :
                    invActions' = [invActions EXCEPT ![p] = ActionsFailed(k)]
             ELSE UNCHANGED invActions
    /\ UNCHANGED <<wfc, relc, nComp, argVars, bootVars, bucketVars, dpVars, localVars>>

\* the calling automation starts the script again after it has exited
Restart(p) ==
    /\ pc[p] = "done"
    /\ runs[p] < MaxRuns
    /\ runs' = [runs EXCEPT ![p] = @ + 1]
    /\ pc' = [pc EXCEPT ![p] = "get_wf"]
    /\ rel' = [rel EXCEPT ![p] = NoRel]
    /\ comp_name' = [comp_name EXCEPT ![p] = NoneVal]
    /\ inv_name' = [inv_name EXCEPT ![p] = NoneVal]
    /\ state' = [state EXCEPT ![p] = NoneVal]
    /\ elapsed' = [elapsed EXCEPT ![p] = 0]
    /\ log' = [log EXCEPT ![p] = <<>>]
    /\ exitCode' = [exitCode EXCEPT ![p] = Running]
    /\ category' = [category EXCEPT ![p] = "none"]
    /\ message' = [message EXCEPT ![p] = NoMsg]
    /\ invState' = [invState EXCEPT ![p] = "<absent>"]
    /\ invActions' = [invActions EXCEPT ![p] = NoActions]
    /\ UNCHANGED <<wfc, relc, nComp, argVars, bootVars, bucketVars, dpVars, seen>>

Step(p) ==
    \/ get_workflow_config(p)
    \/ get_release_config(p)
    \/ create_compilation_result_for_release(p)
    \/ patch_release_config_set_compilation(p)
    \/ create_workflow_invocation(p)
    \/ get_workflow_invocation(p)
    \/ sleep(p)
    \/ ServerProgress(p)
    \/ Restart(p)

Next == \E p \in SeqProcs : Step(p)

Spec == Init /\ [][Next]_vars

SpecAudit == InitAudit /\ [][Next]_vars

TypeOK ==
    /\ pc \in [Procs -> {"get_wf", "get_rel", "compile", "patch", "invoke",
                         "poll", "sleep", "done"}]
    /\ exitCode \in [Procs -> {Running, 0, 1, 3, 4}]
    /\ \A p \in Procs : elapsed[p] \in 0..(MaxTimeout + MaxPoll)
    /\ nComp \in 0..(MaxRuns * Cardinality(Procs))

----------------------------------------------------------------------------
(* Views of the trace of a run *)

IsReq(e) == e.op # "SLEEP"
IsKind(e, op, res) == e.op = op /\ e.res = res
Ok(e) == e.status < 300

\* the remote requests of the current run of p, in order
Reqs(p) == SelectSeq(log[p], IsReq)

IsPoll(e) == IsKind(e, "GET", "workflowInvocation")
IsCompileWrite(e) == IsKind(e, "POST", "compilationResults") \/ e.op = "PATCH"
IsInvocationCreate(e) == IsKind(e, "POST", "workflowInvocations")

\* the polls of the current run and the states they returned
Polls(p) == SelectSeq(log[p], IsPoll)
Observed(p) == [i \in 1..Len(Polls(p)) |-> Polls(p)[i].val]

CompileWrites(p) == SelectSeq(log[p], IsCompileWrite)
InvocationCreates(p) == SelectSeq(log[p], IsInvocationCreate)

\* the run has fetched its ReleaseConfig
Fetched(p) == \E i \in DOMAIN log[p] :
                 IsKind(log[p][i], "GET", "releaseConfig") /\ Ok(log[p][i])

Empty(v) == v \in {NoneVal, ""}

----------------------------------------------------------------------------
(* C1: the request creating a WorkflowInvocation is issued only when the     *)
(* ReleaseConfig has a non-empty releaseCompilationResult: the fetched       *)
(* ReleaseConfig carried one, or a PATCH of this run setting it has          *)
(* succeeded before.                                                         *)
C1_InvocationOnlyWhenCompiled ==
    \A p \in Procs : \A i \in DOMAIN log[p] :
        IsInvocationCreate(log[p][i]) =>
            /\ ~Empty(relc.releaseCompilationResult)
            /\ \/ ~Empty(rel[p].releaseCompilationResult)
               \/ \E j \in 1..(i - 1) :
                     /\ log[p][j].op = "PATCH"
                     /\ Ok(log[p][j])
                     /\ "releaseCompilationResult" \in log[p][j].mask
                     /\ ~Empty(log[p][j].val)

C1_Witness ==
    \E p \in Procs :
        /\ Len(InvocationCreates(p)) = 1
        /\ Empty(rel[p].releaseCompilationResult)
        /\ Fetched(p)
        /\ \E j \in DOMAIN log[p] : log[p][j].op = "PATCH" /\ Ok(log[p][j])

(* C2: when the fetched ReleaseConfig has a non-empty reference the compile  *)
(* step does nothing: the run issues no POST to compilationResults and no    *)
(* PATCH, and the remote ReleaseConfig stays as it was fetched.              *)
C2_CompiledIsNoOp ==
    \A p \in SeqProcs :
        (Fetched(p) /\ ~Empty(rel[p].releaseCompilationResult)) =>
            /\ CompileWrites(p) = <<>>
            /\ relc = rel[p]
            /\ pc[p] \notin {"compile", "patch"}

C2_Witness ==
    \E p \in SeqProcs :
        /\ Fetched(p)
        /\ ~Empty(rel[p].releaseCompilationResult)
        /\ pc[p] = "done"
        /\ exitCode[p] = 0

\* the compile step of the run is over and every call of it succeeded
BootstrapDone(p) ==
    /\ Fetched(p)
    /\ Empty(rel[p].releaseCompilationResult)
    /\ \/ pc[p] \in {"invoke", "poll", "sleep"}
       \/ InvocationCreates(p) # <<>>

(* C3: with an empty reference and valid settings, a run whose calls all     *)
(* succeed issues exactly one POST to compilationResults followed by exactly *)
(* one PATCH whose update mask names only releaseCompilationResult, and the  *)
(* PATCH writes the name the create returned.                                *)
C3_BootstrapOneCreateOnePatch ==
    \A p \in SeqProcs :
        /\ Len(CompileWrites(p)) <= 2
        /\ BootstrapDone(p) =>
             LET w == CompileWrites(p) IN
             /\ ReleaseSettingsError(rel[p]) = "ok"
             /\ Len(w) = 2
             /\ IsKind(w[1], "POST", "compilationResults") /\ Ok(w[1])
             /\ IsKind(w[2], "PATCH", "releaseConfig") /\ Ok(w[2])
             /\ w[2].mask = {"releaseCompilationResult"}
             /\ ~Empty(w[1].val)
             /\ w[2].val = w[1].val
             /\ relc.releaseCompilationResult = w[1].val
             /\ relc.gitCommitish = rel[p].gitCommitish
             /\ relc.codeCompilationConfig = rel[p].codeCompilationConfig
             /\ relc.name = rel[p].name

C3_Witness ==
    \E p \in SeqProcs : BootstrapDone(p) /\ pc[p] = "done" /\ exitCode[p] = 0

\* the kind of the i-th request of a run that fetched `fetchedRef`
ExpectedKind(i, fetchedRef) ==
    LET base == IF Empty(fetchedRef) THEN 2 ELSE 0 IN
    CASE i = 1 -> <<"GET", "workflowConfig">>
      [] i = 2 -> <<"GET", "releaseConfig">>
      [] i = 3 /\ base = 2 -> <<"POST", "compilationResults">>
      [] i = 4 /\ base = 2 -> <<"PATCH", "releaseConfig">>
      [] i = 3 + base -> <<"POST", "workflowInvocations">>
      [] OTHER -> <<"GET", "workflowInvocation">>

(* C4: the requests of a run occur in the order GET WorkflowConfig, GET      *)
(* ReleaseConfig, (POST compilationResults, PATCH ReleaseConfig when the     *)
(* reference is empty), POST workflowInvocations, GETs of the invocation,    *)
(* each issued only after all earlier ones succeeded; a run with an empty    *)
(* reference and valid settings that polls RUNNING, RUNNING, SUCCEEDED has   *)
(* done the bootstrap, created one invocation and exits with code 0.         *)
C4_RequestOrder ==
    \A p \in SeqProcs :
        LET r == Reqs(p) IN
        /\ \A i \in DOMAIN r :
             /\ <<r[i].op, r[i].res>> = ExpectedKind(i, rel[p].releaseCompilationResult)
             /\ i < Len(r) => Ok(r[i]) /\ (r[i].op = "POST" => ~Empty(r[i].val))
        /\ (Fetched(p) /\ Empty(rel[p].releaseCompilationResult)
              /\ Observed(p) = <<"RUNNING", "RUNNING", "SUCCEEDED">>
              /\ Ok(r[Len(r)])) =>
             /\ [i \in DOMAIN r |-> r[i].op] =
                  <<"GET", "GET", "POST", "PATCH", "POST", "GET", "GET", "GET">>
             /\ Len(InvocationCreates(p)) = 1
             /\ pc[p] = "done"
             /\ exitCode[p] = 0

C4_Witness ==
    \E p \in SeqProcs :
        /\ Fetched(p) /\ Empty(rel[p].releaseCompilationResult)
        /\ Observed(p) = <<"RUNNING", "RUNNING", "SUCCEEDED">>
        /\ exitCode[p] = 0

(* C5: a poll that observes SUCCEEDED ends the run at once with exit code 0: *)
(* no poll, no sleep and no timeout check follow it.                         *)
C5_SucceededReturnsImmediately ==
    \A p \in Procs : \A i \in DOMAIN log[p] :
        (IsPoll(log[p][i]) /\ Ok(log[p][i]) /\ log[p][i].val = "SUCCEEDED") =>
            /\ i = Len(log[p])
            /\ pc[p] = "done"
            /\ exitCode[p] = 0

C5_Witness ==
    \E p \in Procs :
        /\ Len(log[p]) > 0
        /\ LET e == log[p][Len(log[p])] IN
             IsPoll(e) /\ Ok(e) /\ e.val = "SUCCEEDED" /\ e.at > timeout_sec
        /\ exitCode[p] = 0

\* the actions of p's invocation that the service reports as FAILED
FailedActions(p) == {a \in 1..NumActions : invActions[p][a] = "FAILED"}

EndedInPolling(p) ==
    /\ pc[p] = "done"
    /\ category[p] \in {"Success", "WorkflowFailed", "WorkflowTimeout"}

NonTerminal(v) == v \notin {"SUCCEEDED", "FAILED", "CANCELLED"}

FailureCategories ==
    {"RemoteError", "ProtocolError", "ConfigError", "WorkflowFailed", "WorkflowTimeout"}

C10_HttpFailureIsFatal ==
    \A p \in Procs :
        /\ \A i \in DOMAIN log[p] :
             (IsReq(log[p][i]) /\ log[p][i].status >= 300) =>
                 /\ i = Len(log[p])
                 /\ pc[p] = "done"
                 /\ exitCode[p] = 1
                 /\ category[p] = "RemoteError"
        /\ \A i \in 1..(Len(log[p]) - 1) :
             (IsReq(log[p][i]) /\ IsReq(log[p][i + 1])) =>
                 <<log[p][i].op, log[p][i].res>> # <<log[p][i + 1].op, log[p][i + 1].res>>

C10_Witness ==
    \E p \in Procs :
        /\ Len(Polls(p)) >= 2
        /\ Polls(p)[Len(Polls(p))].status >= 300
        /\ exitCode[p] = 1

----------------------------------------------------------------------------
\* the fetched ReleaseConfig cannot be compiled: a setting is missing
SettingsMissing(r) ==
    \/ r.gitCommitish \in {NoneVal, ""}
    \/ r.codeCompilationConfig # "{dict}"

(* C11: when the fetched ReleaseConfig has an empty reference and lacks a    *)
(* non-empty gitCommitish or a codeCompilationConfig payload, the run fails  *)
(* with a configuration error before any POST to compilationResults or       *)
(* PATCH, and creates no WorkflowInvocation.                                 *)
C11_MissingSettingsFailBeforeWrites ==
    \A p \in SeqProcs :
        (Fetched(p) /\ Empty(rel[p].releaseCompilationResult) /\ SettingsMissing(rel[p])) =>
            /\ CompileWrites(p) = <<>>
            /\ InvocationCreates(p) = <<>>
            /\ Len(Reqs(p)) = 2
            /\ pc[p] \in {"compile", "done"}
            /\ pc[p] = "done" => category[p] = "ConfigError" /\ exitCode[p] = 1
            /\ Empty(relc.releaseCompilationResult)

C11_Witness ==
    \E p \in SeqProcs :
        /\ Fetched(p)
        /\ Empty(rel[p].releaseCompilationResult)
        /\ rel[p].gitCommitish = "main"
        /\ rel[p].codeCompilationConfig = "[list]"
        /\ category[p] = "ConfigError"

(* C12: when the creation of the CompilationResult answers with a success    *)
(* status but without a name (or with an empty one), the run fails with a    *)
(* protocol error: no PATCH is issued, no WorkflowInvocation is created and  *)
(* the remote reference stays empty.                                         *)
C12_CreateWithoutNameIsProtocolError ==
    \A p \in SeqProcs : \A i \in DOMAIN log[p] :
        (IsKind(log[p][i], "POST", "compilationResults") /\ Ok(log[p][i])
           /\ log[p][i].val \in {NoneVal, ""}) =>
            /\ i = Len(log[p])
            /\ pc[p] = "done"
            /\ category[p] = "ProtocolError"
            /\ exitCode[p] = 1
            /\ \A j \in DOMAIN log[p] :
                 log[p][j].op # "PATCH" /\ ~IsInvocationCreate(log[p][j])
            /\ Empty(relc.releaseCompilationResult)

C12_Witness ==
    \E p \in SeqProcs :
        /\ category[p] = "ProtocolError"
        /\ Len(log[p]) = 3
        /\ log[p][3].val = ""
        /\ log[p][3].status = 200

(* C13: when the fetched WorkflowConfig has no releaseConfig reference (or   *)
(* an empty one) the run fails with a configuration error at once: it sends  *)
(* no request after the GET of the WorkflowConfig.                           *)
C13_NoReleaseConfigFailsAtOnce ==
    \A p \in SeqProcs :
        (Len(log[p]) >= 1 /\ Ok(log[p][1]) /\ wfc.releaseConfig \in {NoneVal, ""}) =>
            /\ Len(log[p]) = 1
            /\ IsKind(log[p][1], "GET", "workflowConfig")
            /\ pc[p] = "done"
            /\ category[p] = "ConfigError"
            /\ exitCode[p] = 1
            /\ nComp = 0
            /\ invState[p] = "<absent>"

C13_Witness ==
    \E p \in SeqProcs :
        /\ wfc.releaseConfig = ""
        /\ category[p] = "ConfigError"
        /\ runs[p] = 2

\* the current run got an answer below 300, with a name, to every request
RunSucceeded(p) ==
    /\ pc[p] = "done"
    /\ exitCode[p] = 0

(* C14: two runs in sequence against a WorkflowConfig whose ReleaseConfig is *)
(* already compiled: no CompilationResult is created in either run, no run   *)
(* creates more than one WorkflowInvocation, and a run whose calls all       *)
(* succeed creates exactly one.                                              *)
C14_CompiledRunsCreateOneInvocationEach ==
    \A p \in SeqProcs :
        relc.releaseCompilationResult = CompName(0) =>
            /\ nComp = 0
            /\ CompileWrites(p) = <<>>
            /\ Len(InvocationCreates(p)) <= 1
            /\ pc[p] \in {"poll", "sleep"} => Len(InvocationCreates(p)) = 1
            /\ (pc[p] = "done" /\ category[p] \in {"Success", "WorkflowFailed", "WorkflowTimeout"})
                  => Len(InvocationCreates(p)) = 1

C14_Witness ==
    \E p \in SeqProcs :
        /\ relc.releaseCompilationResult = CompName(0)
        /\ runs[p] = 2
        /\ seen = {<<"Success", 0>>}
        /\ RunSucceeded(p)
        /\ Len(InvocationCreates(p)) = 1

\* the names the service gave to the CompilationResults created so far
CreatedNames == {CompName(k) : k \in 1..nComp}

\* a PATCH of the current run has succeeded
PatchedInThisRun(p) ==
    \E i \in DOMAIN log[p] : log[p][i].op = "PATCH" /\ Ok(log[p][i])

(* C15: once a run has completed the bootstrap (create and PATCH succeeded)  *)
(* the reference is stored, and every later sequential run finds it          *)
(* non-empty and issues no POST to compilationResults and no PATCH.          *)
C15_LaterRunsSkipBootstrap ==
    \A p \in SeqProcs :
        /\ \A i \in DOMAIN log[p] :
             (log[p][i].op = "PATCH" /\ Ok(log[p][i])) =>
                 relc.releaseCompilationResult = log[p][i].val
        /\ (relc.releaseCompilationResult \in CreatedNames /\ ~PatchedInThisRun(p)) =>
             /\ runs[p] >= 2
             /\ CompileWrites(p) = <<>>
             /\ Fetched(p) => rel[p].releaseCompilationResult = relc.releaseCompilationResult
             /\ pc[p] \notin {"compile", "patch"}

C15_Witness ==
    \E p \in SeqProcs :
        /\ relc.releaseCompilationResult = CompName(1)
        /\ runs[p] = 2
        /\ RunSucceeded(p)
        /\ CompileWrites(p) = <<>>

----------------------------------------------------------------------------
(* scripts/bootstrap_projects.py: running gcloud commands *)

MaxBootRuns == 2     \* runs of the bootstrap script

\* what subprocess.run can do with a command:
\*   "ok"       exit status 0
\*   "garbage"  exit status 0, stdout that is not JSON
\*   "fail"     exit status 1
\*   "timeout"  TimeoutExpired
TimeoutReturnCode == 124

ReturnCode(o) ==
    CASE o = "timeout" -> TimeoutReturnCode
      [] o = "fail" -> 1
      [] OTHER -> 0

\* run_cmd: the CmdResult it returns, or the RuntimeError it raises
run_cmd(check, o) ==
    [returncode |-> ReturnCode(o),
     raised |-> check /\ o \notin {"timeout"} /\ ReturnCode(o) # 0]

\* outcomes of a read-only command about a project
Answers(exists) ==
    IF exists THEN {"ok", "fail", "timeout"} ELSE {"fail", "timeout"}

\* outcomes of a mutating command, each with whether the cloud applied it;
\* a command that timed out may or may not have taken effect
Effects(possible) ==
    {<<"fail", FALSE>>, <<"timeout", FALSE>>}
      \cup (IF possible THEN {<<"ok", TRUE>>, <<"timeout", TRUE>>} ELSE {})

\* envp of the loop of main()
envp == Envs[env_i]

\* one line of the [RUN] trace, with the cloud state the command met
Cmd(kind, o, rc, args) ==
    [kind |-> kind, res |-> o, rc |-> rc, args |-> args,
     existed |-> projects[envp], enabled |-> services[envp]]

Critical == {"projects create", "billing link", "services enable"}
Probes == {"projects describe", "billing describe", "services list"}

\* variant: the failure of an environment is reported and the loop goes on
boot_raise_continue ==
    /\ boot_pc' = "next"
    /\ boot_exit' = boot_exit
    /\ reported' = reported \cup {"Bootstrap failed"}

\* the except branch of main(): fatal(...) and return 1
boot_raise ==
    /\ boot_pc' = "done"
    /\ boot_exit' = 1
    /\ reported' = reported \cup {"Bootstrap failed"}

boot_main ==
    /\ boot_pc = "main"
    /\ IF confirm # "YES"
          THEN boot_pc' = "done" /\ boot_exit' = 2
          ELSE boot_pc' = "project" /\ boot_exit' = boot_exit
    /\ UNCHANGED <<projects, billing, services, confirm, labels, env_i, cmds,
                   reported, boot_runs, cleanNow, cleanBefore,
                   dataformVars, bucketVars, dpVars>>

project_exists ==
    /\ boot_pc = "project"
    /\ \E o \in Answers(projects[envp]) :
         LET p == run_cmd(FALSE, o) IN
         /\ cmds' = Append(cmds, Cmd("projects describe", o, p.returncode, {}))
         /\ IF p.returncode = 0
               THEN /\ reported' = reported \cup {"[SKIP] Project already exists"}
                    /\ boot_pc' = "billing"
               ELSE /\ reported' = reported
                    /\ boot_pc' = "create"
    /\ UNCHANGED <<projects, billing, services, confirm, labels, env_i,
                   boot_exit, boot_runs, cleanNow, cleanBefore,
                   dataformVars, bucketVars, dpVars>>

create_project ==
    /\ boot_pc = "create"
    /\ \E oa \in Effects(~projects[envp]) :
         LET p == run_cmd(TRUE, oa[1]) IN
         /\ projects' = IF oa[2] THEN [projects EXCEPT ![envp] = TRUE] ELSE projects
         /\ cmds' = Append(cmds, Cmd("projects create", oa[1], p.returncode, {}))
         /\ IF p.raised
               THEN boot_raise
               ELSE /\ reported' = reported \cup {"[OK] Project created"}
                    /\ boot_pc' = "billing"
                    /\ boot_exit' = boot_exit
    /\ UNCHANGED <<billing, services, confirm, labels, env_i,
                   boot_runs, cleanNow, cleanBefore, dataformVars, bucketVars, dpVars>>

billing_is_linked ==
    /\ boot_pc = "billing"
    /\ \E o \in Answers(projects[envp]) \cup (IF projects[envp] THEN {"garbage"} ELSE {}) :
         LET p == run_cmd(FALSE, o)
             linked == IF p.returncode # 0 THEN FALSE
                       ELSE IF o = "garbage" THEN FALSE
                       ELSE billing[envp]
         IN
         /\ cmds' = Append(cmds, Cmd("billing describe", o, p.returncode, {}))
         /\ IF linked
               THEN /\ reported' = reported \cup {"[SKIP] Billing already linked"}
                    /\ boot_pc' = "apis"
               ELSE /\ reported' = reported
                    /\ boot_pc' = "link"
    /\ UNCHANGED <<projects, billing, services, confirm, labels, env_i,
                   boot_exit, boot_runs, cleanNow, cleanBefore,
                   dataformVars, bucketVars, dpVars>>

link_billing ==
    /\ boot_pc = "link"
    /\ \E oa \in Effects(projects[envp]) :
         LET p == run_cmd(TRUE, oa[1]) IN
         /\ billing' = IF oa[2] THEN [billing EXCEPT ![envp] = TRUE] ELSE billing
         /\ cmds' = Append(cmds, Cmd("billing link", oa[1], p.returncode, {}))
         /\ IF p.raised
               THEN boot_raise
               ELSE /\ reported' = reported \cup {"[OK] Billing linked"}
                    /\ boot_pc' = "apis"
                    /\ boot_exit' = boot_exit
    /\ UNCHANGED <<projects, services, confirm, labels, env_i,
                   boot_runs, cleanNow, cleanBefore, dataformVars, bucketVars, dpVars>>

\* variant: every configured API is passed to `services enable`
Missing_all(apis, enabled) == apis

\* missing = [a for a in apis if a not in enabled]
Missing(apis, enabled) == apis \ enabled

\* enable_apis, with the list_enabled_services it starts with
enable_apis ==
    /\ boot_pc = "apis"
    /\ \E o \in Answers(projects[envp]) :
         LET l == run_cmd(FALSE, o)
             enabled == IF l.returncode # 0 THEN {} ELSE services[envp]
             missing == Missing(Apis, enabled)
             listed == Cmd("services list", o, l.returncode, {})
         IN
         IF missing = {}
            THEN /\ cmds' = Append(cmds, listed)
                 /\ reported' = reported \cup {"[SKIP] All APIs already enabled"}
                 /\ boot_pc' = "labels"
                 /\ UNCHANGED <<services, boot_exit>>
            ELSE \E oa \in Effects(projects[envp]) :
                   LET p == run_cmd(TRUE, oa[1]) IN
                   /\ services' = IF oa[2]
                                     THEN [services EXCEPT ![envp] = @ \cup missing]
                                     ELSE services
                   /\ cmds' = cmds \o <<listed, Cmd("services enable", oa[1], p.returncode, missing)>>
                   /\ IF p.raised
                         THEN boot_raise
                         ELSE /\ reported' = reported \cup {"[OK] Enabled APIs"}
                              /\ boot_pc' = "labels"
                              /\ boot_exit' = boot_exit
    /\ UNCHANGED <<projects, billing, confirm, labels, env_i,
                   boot_runs, cleanNow, cleanBefore, dataformVars, bucketVars, dpVars>>

\* candidates of set_project_labels_best_effort, in the order they are tried
Tracks == <<"standard", "beta", "alpha">>
LabelKinds == {"labels " \o Tracks[i] : i \in DOMAIN Tracks}

IsLabelCmd(c) == c.kind \in LabelKinds
LabelCmds == SelectSeq(cmds, IsLabelCmd)

\* variant: the label commands are run as critical steps
LabelsCheck_critical == TRUE

\* the check= argument of the run_cmd of a label command
LabelsCheck == FALSE

\* every critical command run for the current environment returned 0
AllCriticalOk ==
    \A i \in DOMAIN cmds : cmds[i].kind \in Critical => cmds[i].rc = 0

\* the end of bootstrap_env: "[OK] <env> bootstrap done"
FinishEnv ==
    /\ boot_pc' = "next"
    /\ cleanNow' = IF AllCriticalOk THEN cleanNow \cup {envp} ELSE cleanNow
    /\ boot_exit' = boot_exit

\* one pass through set_project_labels_best_effort: the test of `labels`, or
\* one iteration of the loop over the candidates
set_project_labels_best_effort ==
    /\ boot_pc = "labels"
    /\ IF labels = "{}"
          THEN /\ reported' = reported \cup {"[SKIP] No labels configured", "[OK] bootstrap done"}
               /\ cmds' = cmds
               /\ FinishEnv
          ELSE LET t == Len(LabelCmds) + 1 IN
               \E oa \in Effects(projects[envp]) :
                 LET p == run_cmd(LabelsCheck, oa[1]) IN
                 /\ cmds' = Append(cmds, Cmd("labels " \o Tracks[t], oa[1], p.returncode, {}))
                 /\ IF p.raised
                       THEN boot_raise /\ cleanNow' = cleanNow
                       ELSE IF p.returncode = 0
                       THEN /\ reported' = reported \cup {"[OK] Labels applied", "[OK] bootstrap done"}
                            /\ FinishEnv
                       ELSE IF t = Len(Tracks)
                       THEN /\ reported' = reported \cup {"[WARN] Unable to set project labels", "[OK] bootstrap done"}
                            /\ FinishEnv
                       ELSE /\ UNCHANGED <<reported, boot_pc, boot_exit, cleanNow>>
    /\ UNCHANGED <<projects, billing, services, confirm, labels, env_i,
                   boot_runs, cleanBefore, dataformVars, bucketVars, dpVars>>

\* the loop of main() over env_projects, and its `return 0`
next_env ==
    /\ boot_pc = "next"
    /\ IF env_i < Len(Envs)
          THEN /\ env_i' = env_i + 1
               /\ cmds' = <<>>
               /\ reported' = {}
               /\ boot_pc' = "project"
               /\ boot_exit' = boot_exit
          ELSE /\ boot_pc' = "done"
               /\ boot_exit' = 0
               /\ UNCHANGED <<env_i, cmds, reported>>
    /\ UNCHANGED <<projects, billing, services, confirm, labels,
                   boot_runs, cleanNow, cleanBefore, dataformVars, bucketVars, dpVars>>

\* the script is started again with the same configuration
boot_restart ==
    /\ boot_pc = "done"
    /\ boot_runs < MaxBootRuns
    /\ boot_runs' = boot_runs + 1
    /\ boot_pc' = "main"
    /\ env_i' = 1
    /\ cmds' = <<>>
    /\ reported' = {}
    /\ boot_exit' = Running
    /\ cleanBefore' = cleanNow
    /\ cleanNow' = {}
    /\ UNCHANGED <<projects, billing, services, confirm, labels,
                   dataformVars, bucketVars, dpVars>>

\* the Dataform runner is not started
DataformIdle ==
    /\ wfc = [releaseConfig |-> RelName]
    /\ relc = [name |-> RelName, gitCommitish |-> "main",
               codeCompilationConfig |-> "{dict}",
               releaseCompilationResult |-> CompName(0)]
    /\ nComp = 0
    /\ invState = [p \in Procs |-> "<absent>"]
    /\ invActions = [p \in Procs |-> NoActions]
    /\ timeout_sec = 0
    /\ poll_sec = 1
    /\ audit = FALSE
    /\ pc = [p \in Procs |-> "get_wf"]
    /\ rel = [p \in Procs |-> NoRel]
    /\ comp_name = [p \in Procs |-> NoneVal]
    /\ inv_name = [p \in Procs |-> NoneVal]
    /\ state = [p \in Procs |-> NoneVal]
    /\ elapsed = [p \in Procs |-> 0]
    /\ log = [p \in Procs |-> <<>>]
    /\ exitCode = [p \in Procs |-> Running]
    /\ category = [p \in Procs |-> "none"]
    /\ message = [p \in Procs |-> NoMsg]
    /\ runs = [p \in Procs |-> 1]
    /\ seen = {}

\* a project that was set up by hand before the first run
Preexisting == [exists |-> TRUE, billing |-> TRUE, enabled |-> {"bigquery"}]
Fresh == [exists |-> FALSE, billing |-> FALSE, enabled |-> {}]

InitBoot ==
    /\ DataformIdle
    /\ BucketIdle
    /\ DpIdle
    /\ \E w \in [EnvSet -> {Fresh, Preexisting}] :
         /\ projects = [e \in EnvSet |-> w[e].exists]
         /\ billing = [e \in EnvSet |-> w[e].billing]
         /\ services = [e \in EnvSet |-> w[e].enabled]
    /\ confirm \in {"YES", "NO"}
    /\ labels \in {"{}", "{owner: data}"}
    /\ boot_pc = "main"
    /\ env_i = 1
    /\ cmds = <<>>
    /\ reported = {}
    /\ boot_exit = Running
    /\ boot_runs = 1
    /\ cleanNow = {}
    /\ cleanBefore = {}

NextBoot ==
    \/ boot_main
    \/ project_exists
    \/ create_project
    \/ billing_is_linked
    \/ link_billing
    \/ enable_apis
    \/ set_project_labels_best_effort
    \/ next_env
    \/ boot_restart

SpecBoot == InitBoot /\ [][NextBoot]_vars

----------------------------------------------------------------------------
(* Claims about scripts/bootstrap_projects.py *)

\* a read-only command answered, and what it answered is the cloud's state
Truthful(c) ==
    \/ c.res = "ok"
    \/ c.kind = "projects describe" /\ c.res = "fail" /\ ~c.existed

ProbesTruthful ==
    \A i \in DOMAIN cmds : cmds[i].kind \in Probes => Truthful(cmds[i])

(* C16: when bootstrap_env runs again for an environment whose bootstrap     *)
(* fully succeeded in the run before, and the describe/list commands answer  *)
(* truthfully, it issues no `projects create`, no `billing projects link`    *)
(* and no `services enable`; and whenever `services list` answered, the APIs *)
(* passed to `services enable` are exactly the configured ones that were not *)
(* enabled.                                                                  *)
C16_RerunIssuesNoMutation ==
    /\ (boot_pc # "main" /\ envp \in cleanBefore /\ ProbesTruthful) =>
          \A i \in DOMAIN cmds : cmds[i].kind \notin Critical
    /\ \A i \in DOMAIN cmds :
          (cmds[i].kind = "services enable" /\ cmds[i - 1].res = "ok") =>
              /\ cmds[i].args = {a \in Apis : a \notin cmds[i].enabled}
              /\ cmds[i].args # {}

C16_Witness ==
    /\ boot_runs = 2
    /\ envp \in cleanBefore
    /\ boot_pc = "next"
    /\ ProbesTruthful
    /\ {cmds[i].kind : i \in DOMAIN cmds} = Probes

(* C17: `gcloud projects create` is issued only for a project that does not  *)
(* exist, whatever the describe command that tested its existence returned. *)
C17_CreateOnlyWhenAbsent ==
    \A i \in DOMAIN cmds :
        cmds[i].kind = "projects create" => ~cmds[i].existed

\* the line bootstrap_env prints after a critical step that went through
OkLine(kind) ==
    CASE kind = "projects create" -> "[OK] Project created"
      [] kind = "billing link" -> "[OK] Billing linked"
      [] kind = "services enable" -> "[OK] Enabled APIs"

(* C18: whenever a critical command (project creation, billing link, API     *)
(* enablement) does not return 0, a timeout included, it is the last command *)
(* of the environment, its step is not reported as OK and main returns 1.    *)
C18_CriticalFailureStops ==
    \A i \in DOMAIN cmds :
        (cmds[i].kind \in Critical /\ cmds[i].rc # 0) =>
            /\ i = Len(cmds)
            /\ OkLine(cmds[i].kind) \notin reported
            /\ boot_pc = "done"
            /\ boot_exit = 1

(* C19: the label commands of an environment are the tracks standard, beta,  *)
(* alpha in that order, none follows one that returned 0, and once they are  *)
(* over (one returned 0, or all three failed or timed out, which is only     *)
(* warned about) the bootstrap of the environment is reported done and main  *)
(* does not return 1 because of them.                                        *)
C19_LabelsBestEffort ==
    /\ Len(LabelCmds) <= Len(Tracks)
    /\ \A i \in DOMAIN LabelCmds :
         /\ LabelCmds[i].kind = "labels " \o Tracks[i]
         /\ i < Len(LabelCmds) => LabelCmds[i].rc # 0
    /\ LabelCmds # <<>> =>
         LET last == LabelCmds[Len(LabelCmds)] IN
         IF last.rc # 0 /\ Len(LabelCmds) < Len(Tracks)
            THEN boot_pc = "labels"
            ELSE /\ boot_pc \in {"next", "done"}
                 /\ "[OK] bootstrap done" \in reported
                 /\ boot_exit = (IF boot_pc = "done" THEN 0 ELSE Running)
                 /\ last.rc # 0 <=> "[WARN] Unable to set project labels" \in reported
                 /\ last.rc = 0 <=> "[OK] Labels applied" \in reported

C19_Witness ==
    /\ Len(LabelCmds) = Len(Tracks)
    /\ LabelCmds[1].res = "fail"
    /\ LabelCmds[2].res = "timeout"
    /\ LabelCmds[3].res = "fail"
    /\ boot_pc = "done"
    /\ boot_exit = 0

----------------------------------------------------------------------------
(* scripts/create_tf_backend_bucket.py *)

MaxBucketRuns == 3   \* runs of the bucket script

\* run(cmd): "ok" returns stdout, "fail" raises RuntimeError
RunOutcomes(possible) == IF possible THEN {"ok", "fail"} ELSE {"fail"}

TfCmd(kind, o) == [kind |-> kind, res |-> o, bucket |-> bucket]

\* `return code` of main()
tf_return(code) ==
    /\ tf_pc' = "done"
    /\ tf_exit' = code

\* bucket_exists and the `if` of main() that tests it
bucket_exists ==
    /\ tf_pc = "exists"
    /\ \E o \in RunOutcomes(bucket # "absent") :
         /\ tf_cmds' = Append(tf_cmds, TfCmd("buckets describe", o))
         /\ IF o = "ok"
               THEN tf_return(0)
               ELSE tf_pc' = "set_project" /\ tf_exit' = tf_exit
    /\ UNCHANGED <<bucket, tf_env, tf_exits, tf_runs, dataformVars, bootVars, dpVars>>

\* create_bucket: gcloud config set project
config_set_project ==
    /\ tf_pc = "set_project"
    /\ \E o \in RunOutcomes(TRUE) :
         /\ tf_cmds' = Append(tf_cmds, TfCmd("config set project", o))
         /\ IF o = "ok"
               THEN tf_pc' = "create" /\ tf_exit' = tf_exit
               ELSE tf_return(1)
    /\ UNCHANGED <<bucket, tf_env, tf_exits, tf_runs, dataformVars, bootVars, dpVars>>

\* create_bucket: gcloud storage buckets create
buckets_create ==
    /\ tf_pc = "create"
    /\ \E o \in RunOutcomes(bucket = "absent") :
         /\ tf_cmds' = Append(tf_cmds, TfCmd("buckets create", o))
         /\ IF o = "ok"
               THEN /\ bucket' = "plain"
                    /\ tf_pc' = "versioning"
                    /\ tf_exit' = tf_exit
               ELSE /\ bucket' = bucket
                    /\ tf_return(1)
    /\ UNCHANGED <<tf_env, tf_exits, tf_runs, dataformVars, bootVars, dpVars>>

\* create_bucket: gcloud storage buckets update --versioning, and the
\* `return 0` of main() after create_bucket
buckets_update_versioning ==
    /\ tf_pc = "versioning"
    /\ \E o \in RunOutcomes(bucket # "absent") :
         /\ tf_cmds' = Append(tf_cmds, TfCmd("buckets update --versioning", o))
         /\ IF o = "ok"
               THEN /\ bucket' = "versioned"
                    /\ tf_return(0)
               ELSE /\ bucket' = bucket
                    /\ tf_return(1)
    /\ UNCHANGED <<tf_env, tf_exits, tf_runs, dataformVars, bootVars, dpVars>>

\* the script is started again for the same environment
tf_restart ==
    /\ tf_pc = "done"
    /\ tf_runs < MaxBucketRuns
    /\ tf_runs' = tf_runs + 1
    /\ tf_exits' = Append(tf_exits, tf_exit)
    /\ tf_pc' = "exists"
    /\ tf_cmds' = <<>>
    /\ tf_exit' = Running
    /\ UNCHANGED <<bucket, tf_env, dataformVars, bootVars, dpVars>>

InitBucket ==
    /\ DataformIdle
    /\ BootIdle
    /\ DpIdle
    /\ bucket = "absent"
    /\ tf_env \in {"dev", "staging", "prod"}
    /\ tf_pc = "exists"
    /\ tf_cmds = <<>>
    /\ tf_exit = Running
    /\ tf_exits = <<>>
    /\ tf_runs = 1

NextBucket ==
    \/ bucket_exists
    \/ config_set_project
    \/ buckets_create
    \/ buckets_update_versioning
    \/ tf_restart

SpecBucket == InitBucket /\ [][NextBucket]_vars

(* C20: starting without the bucket, every run of main that exits with code  *)
(* 0 leaves the bucket existing with versioning enabled.                     *)
C20_ExitZeroMeansVersioned ==
    (tf_pc = "done" /\ tf_exit = 0) => bucket = "versioned"

----------------------------------------------------------------------------
(* More claims about scripts/run_dataform_workflow_env.py *)

\* the part of the trace of p made inside poll_until_done
IsLoopEvent(e) == IsPoll(e) \/ e.op = "SLEEP"
LoopTrace(p) == SelectSeq(log[p], IsLoopEvent)

(* C21: inside the polling loop polls and sleeps alternate, starting with a  *)
(* poll: between two consecutive polls there is exactly one sleep, every     *)
(* sleep lasts exactly poll_sec, and a sleep directly follows a poll that    *)
(* was answered with a non-terminal state.                                   *)
C21_OneFixedSleepBetweenPolls ==
    \A p \in SeqProcs :
        LET t == LoopTrace(p) IN
        \A i \in DOMAIN t :
            /\ (i % 2 = 1) <=> IsPoll(t[i])
            /\ t[i].op = "SLEEP" =>
                 /\ t[i].dur = poll_sec
                 /\ Ok(t[i - 1])
                 /\ t[i - 1].val \notin {"SUCCEEDED", "FAILED", "CANCELLED"}
                 /\ t[i].at = t[i - 1].at
            /\ (IsPoll(t[i]) /\ i > 1) => t[i].at = t[i - 2].at + poll_sec

C21_Witness ==
    \E p \in SeqProcs :
        /\ poll_sec = 2
        /\ Len(LoopTrace(p)) = 5
        /\ LoopTrace(p)[2].dur = 2
        /\ LoopTrace(p)[4].dur = 2
        /\ LoopTrace(p)[5].val = "SUCCEEDED"

\* one statement of main(): a sequential program always executes its next one
ProgramStep(p) ==
    \/ get_workflow_config(p)
    \/ get_release_config(p)
    \/ create_compilation_result_for_release(p)
    \/ patch_release_config_set_compilation(p)
    \/ create_workflow_invocation(p)
    \/ get_workflow_invocation(p)
    \/ sleep(p)

NextLive ==
    \E p \in SeqProcs :
        \/ get_workflow_config(p)
        \/ get_release_config(p)
        \/ create_compilation_result_for_release(p)
        \/ patch_release_config_set_compilation(p)
        \/ create_workflow_invocation(p)
        \/ get_workflow_invocation(p)
        \/ sleep(p)
        \/ ServerProgress(p)

\* one run of main(); the process keeps executing, every request is answered
\* and every sleep returns, while the service owes the invocation no progress
SpecLive ==
    /\ Init
    /\ [][NextLive]_vars
    /\ \A p \in SeqProcs : WF_vars(ProgramStep(p))

\* the largest number of polls one run can make
MaxPolls(timeout, poll) == (timeout \div poll) + 2

(* C22: with poll_sec >= 1 and timeout_sec >= 0 a run makes at most          *)
(* floor(timeout_sec / poll_sec) + 2 polls, and it always terminates,        *)
(* whatever the service does and even if the invocation never becomes        *)
(* terminal.                                                                 *)
C22_PollingTerminates ==
    /\ [](\A p \in SeqProcs : Len(Polls(p)) <= MaxPolls(timeout_sec, poll_sec))
    /\ \A p \in SeqProcs : <>(pc[p] = "done")

C22_Witness ==
    \E p \in SeqProcs :
        /\ pc[p] = "done"
        /\ category[p] = "WorkflowTimeout"
        /\ timeout_sec = 3
        /\ poll_sec = 2
        /\ Len(Polls(p)) = 3
        /\ invState[p] = NoneVal

----------------------------------------------------------------------------
(* Two runs of main() at the same time against the same WorkflowConfig *)

\* both processes are started once; the polling budget is kept short
InitConc ==
    /\ Init
    /\ timeout_sec = 0
    /\ poll_sec = 1

NextConc ==
    \E p \in Procs :
        \/ get_workflow_config(p)
        \/ get_release_config(p)
        \/ create_compilation_result_for_release(p)
        \/ patch_release_config_set_compilation(p)
        \/ create_workflow_invocation(p)
        \/ get_workflow_invocation(p)
        \/ sleep(p)
        \/ ServerProgress(p)

SpecConc == InitConc /\ [][NextConc]_vars

\* the bootstrap requests of p that were answered with a success
CreatedBy(p) ==
    {log[p][i].val : i \in {j \in DOMAIN log[p] :
        IsKind(log[p][j], "POST", "compilationResults") /\ Ok(log[p][j])}}
PatchedBy(p) ==
    {log[p][i].val : i \in {j \in DOMAIN log[p] :
        log[p][j].op = "PATCH" /\ Ok(log[p][j])}}

\* this step is a PATCH of p that the service answered with a success
PatchSucceeds(p) ==
    /\ pc[p] = "patch"
    /\ pc'[p] = "invoke"

(* C23: two concurrent runs that both fetched an empty reference are not     *)
(* kept apart: every successful PATCH, whatever the reference holds at that  *)
(* moment, stores the name its own run created, so once both runs have       *)
(* patched the reference is the one written by the later PATCH.              *)
C23_LastWriterWins ==
    /\ [][\A p \in Procs :
            PatchSucceeds(p) => relc'.releaseCompilationResult = comp_name[p]]_vars
    /\ [](\A p \in Procs :
            PatchedBy(p) # {} =>
                /\ PatchedBy(p) = {comp_name[p]}
                /\ comp_name[p] \in CreatedBy(p)
                /\ Empty(rel[p].releaseCompilationResult)
                /\ relc.releaseCompilationResult \in UNION {PatchedBy(q) : q \in Procs})

C23_Witness ==
    /\ \A p \in Procs :
         /\ Empty(rel[p].releaseCompilationResult)
         /\ CreatedBy(p) = {comp_name[p]}
         /\ PatchedBy(p) = {comp_name[p]}
    /\ comp_name[1] = CompName(2)
    /\ comp_name[2] = CompName(1)
    /\ relc.releaseCompilationResult = CompName(1)

(* C24: for two runs interleaved arbitrarily the remote reference is always  *)
(* empty, the pre-existing name, or the name of a CompilationResult one of   *)
(* the runs created; and from the moment a run is about to create its        *)
(* invocation the remote reference is non-empty.                             *)
C24_ReferenceAlwaysValid ==
    /\ \/ Empty(relc.releaseCompilationResult)
       \/ relc.releaseCompilationResult = CompName(0)
       \/ relc.releaseCompilationResult \in UNION {CreatedBy(p) : p \in Procs}
    /\ relc.releaseCompilationResult \in {CompName(k) : k \in 0..nComp} \cup {NoneVal, ""}
    /\ \A p \in Procs :
         (pc[p] = "invoke" \/ InvocationCreates(p) # <<>>) =>
             ~Empty(relc.releaseCompilationResult)

C24_Witness ==
    /\ InvocationCreates(1) # <<>>
    /\ InvocationCreates(2) # <<>>
    /\ PatchedBy(1) # {}
    /\ PatchedBy(2) = {}
    /\ ~Empty(rel[2].releaseCompilationResult)
    /\ relc.releaseCompilationResult = CompName(1)

----------------------------------------------------------------------------
\* states the runner does not list as terminal: live ones, one it does not
\* know, and the default it substitutes for a missing field
Unlisted == {"RUNNING", "CANCELING", "STATE_UNSPECIFIED"}

(* C25: a poll answered with a state other than SUCCEEDED, FAILED and        *)
(* CANCELLED (an unknown value and a missing state field included) neither   *)
(* crashes the run nor ends it as success or workflow failure: the run goes  *)
(* on to sleep and poll again, unless that poll was made after more than     *)
(* timeout_sec, in which case it ends as a timeout.                          *)
C25_UnlistedStatesAreNonTerminal ==
    \A p \in SeqProcs : \A i \in DOMAIN log[p] :
        (IsPoll(log[p][i]) /\ Ok(log[p][i]) /\ log[p][i].val \notin WireTerminal) =>
            /\ log[p][i].val \in Unlisted
            /\ IF i < Len(log[p])
                 THEN log[p][i + 1].op = "SLEEP" /\ log[p][i].at <= timeout_sec
                 ELSE \/ pc[p] = "sleep" /\ log[p][i].at <= timeout_sec
                      \/ /\ pc[p] = "done"
                         /\ category[p] = "WorkflowTimeout"
                         /\ exitCode[p] = TimeoutCode
                         /\ log[p][i].at > timeout_sec

C25_Witness ==
    \E p \in SeqProcs :
        /\ Len(Polls(p)) = 3
        /\ Observed(p) = <<"STATE_UNSPECIFIED", "CANCELING", "SUCCEEDED">>
        /\ invState[p] = "SUCCEEDED"
        /\ exitCode[p] = 0

(* C26: a run exits with code 0 only if its last request is a poll that      *)
(* observed SUCCEEDED; a run that ended in any other way (an error before    *)
(* polling, FAILED, CANCELLED, a timeout, an HTTP failure) has a non-zero    *)
(* exit code.                                                                *)
C26_ExitZeroOnlyOnSucceeded ==
    \A p \in SeqProcs :
        /\ exitCode[p] = 0 =>
             /\ pc[p] = "done"
             /\ Len(log[p]) > 0
             /\ LET e == log[p][Len(log[p])] IN
                  IsPoll(e) /\ Ok(e) /\ e.val = "SUCCEEDED"
        /\ (pc[p] = "done" /\ category[p] # "Success") => exitCode[p] \in {1, 3, 4}
        /\ pc[p] = "done" => exitCode[p] # Running

C26_Witness ==
    \E p \in SeqProcs :
        /\ pc[p] = "done"
        /\ category[p] = "ConfigError"
        /\ exitCode[p] = 1
        /\ Polls(p) = <<>>
        /\ runs[p] = 2

(* C27: when the PATCH of the ReleaseConfig fails after the                  *)
(* CompilationResult was created, the run aborts without creating an         *)
(* invocation and the remote reference stays empty; the CompilationResult is *)
(* neither deleted nor reused: a create of a later run returns a new name.   *)
C27_FailedPatchLeavesOrphan ==
    \A p \in SeqProcs :
        /\ \A i \in DOMAIN log[p] :
             (log[p][i].op = "PATCH" /\ ~Ok(log[p][i])) =>
                 /\ i = Len(log[p])
                 /\ pc[p] = "done"
                 /\ category[p] = "RemoteError"
                 /\ exitCode[p] = 1
                 /\ InvocationCreates(p) = <<>>
                 /\ invState[p] = "<absent>"
                 /\ Empty(relc.releaseCompilationResult)
                 /\ CreatedBy(p) = {log[p][i].val}
                 /\ nComp >= 1
        /\ \A c \in CreatedBy(p) \ {NoneVal, ""} :
             /\ c = CompName(nComp)
             /\ c \notin {CompName(k) : k \in 0..(nComp - 1)}

C27_Witness ==
    \E p \in SeqProcs :
        /\ runs[p] = 2
        /\ nComp = 2
        /\ CreatedBy(p) = {CompName(2)}
        /\ pc[p] = "done"
        /\ category[p] = "RemoteError"
        /\ log[p][Len(log[p])].op = "PATCH"
        /\ Empty(relc.releaseCompilationResult)

----------------------------------------------------------------------------
(* scripts/run_dataform_workflow.py: the polling loop of the client-library  *)
(* runner, as a function of the states its polls are answered with           *)

\* variant: the deadline itself already counts as passed
ClientDeadlinePassed_atBoundary(el, timeout) == el >= timeout

\* time.time() > deadline, with deadline = start + args.timeout_sec
ClientDeadlinePassed(el, timeout) == el > timeout

\* exit status of the interpreter after the uncaught TimeoutError
ClientTimeoutExit == 1
ClientFailedExit == 2

\* the loop from its i-th iteration on, el time units after the deadline was
\* set; `states` are the answers in order.  It yields the number of polls
\* made and the exit status (Running if the answers ran out first).
RECURSIVE ClientLoop(_, _, _, _, _)
ClientLoop(states, i, el, timeout, poll) ==
    IF ClientDeadlinePassed(el, timeout)
      THEN [polls |-> i - 1, exit |-> ClientTimeoutExit]
    ELSE IF i > Len(states)
      THEN [polls |-> i - 1, exit |-> Running]
    ELSE IF states[i] \in {"SUCCEEDED"}
      THEN [polls |-> i, exit |-> 0]
    ELSE IF states[i] \in {"FAILED", "CANCELLED"}
      THEN [polls |-> i, exit |-> ClientFailedExit]
    ELSE ClientLoop(states, i + 1, el + poll, timeout, poll)

ClientRun(states, timeout, poll) == ClientLoop(states, 1, 0, timeout, poll)

\* the polls of the run were all answered, the last one with a terminal
\* state and not later than timeout_sec after polling started
TerminalBeforeTimeout(p) ==
    /\ Polls(p) # <<>>
    /\ \A i \in DOMAIN Polls(p) : Ok(Polls(p)[i])
    /\ LET last == Polls(p)[Len(Polls(p))] IN
         last.val \in {"SUCCEEDED", "FAILED", "CANCELLED"} /\ last.at <= timeout_sec

(* C28: when a terminal state is observed at a poll made before the timeout, *)
(* the client-library loop fed with the same states makes the same number of *)
(* polls as the REST loop (both stop at the first terminal state), both      *)
(* report success exactly when that state is SUCCEEDED, and both exit with a *)
(* non-zero status when it is FAILED or CANCELLED.                           *)
C28_LoopsAgreeBeforeTimeout ==
    \A p \in SeqProcs :
        TerminalBeforeTimeout(p) =>
            LET obs == Observed(p)
                c == ClientRun(obs, timeout_sec, poll_sec)
            IN
            /\ pc[p] = "done"
            /\ c.polls = Len(obs)
            /\ \A i \in 1..(Len(obs) - 1) : obs[i] \notin {"SUCCEEDED", "FAILED", "CANCELLED"}
            /\ (c.exit = 0) <=> (obs[Len(obs)] = "SUCCEEDED")
            /\ (exitCode[p] = 0) <=> (obs[Len(obs)] = "SUCCEEDED")
            /\ obs[Len(obs)] \in {"FAILED", "CANCELLED"} =>
                 /\ c.exit = ClientFailedExit
                 /\ exitCode[p] = FailedCode

C28_Witness ==
    \E p \in SeqProcs :
        /\ TerminalBeforeTimeout(p)
        /\ timeout_sec = 2
        /\ poll_sec = 2
        /\ Observed(p) = <<"RUNNING", "CANCELLED">>
        /\ ClientRun(Observed(p), timeout_sec, poll_sec).exit = 2
        /\ exitCode[p] = 3

----------------------------------------------------------------------------
(* More claims about scripts/bootstrap_projects.py *)

\* the environment names a YAML file may use, and the orders it may list them in
EnvNames == {"dev", "staging", "prod", "sandbox"}
YamlOrders ==
    {s \in UNION {[1..n -> EnvNames] : n \in 0..3} :
        \A i, j \in DOMAIN s : i # j => s[i] # s[j]}

\* dev, then staging, then prod, then every other name
InClaimedOrder(s) ==
    \A i, j \in DOMAIN s :
        i < j =>
            /\ s[j] = "dev" => s[i] = "dev"
            /\ s[j] = "staging" => s[i] \in {"dev", "staging"}
            /\ s[j] = "prod" => s[i] \in {"dev", "staging", "prod"}

\* a step of the loop of main() from one environment to another
EnvChange ==
    env_i' # env_i =>
        \/ /\ env_i' = env_i + 1
           /\ "[OK] bootstrap done" \in reported
           /\ "Bootstrap failed" \notin reported
           /\ boot_exit = Running
        \/ /\ boot_pc = "done"
           /\ boot_runs' = boot_runs + 1
           /\ env_i' = 1

\* once main() has returned 1 no command is run before the script is restarted
QuietAfterFailure ==
    boot_exit = 1 => (cmds' = cmds \/ boot_runs' = boot_runs + 1)

(* C29: the environments are bootstrapped one after the other in the order   *)
(* dev, staging, prod, other names last; when bootstrap_env raises for an    *)
(* environment main returns 1 at once and runs no command for a later        *)
(* environment; main returns 0 only after bootstrap_env has returned for     *)
(* every environment.                                                        *)
C29_SequentialStopAtFirstFailure ==
    /\ [](/\ boot_pc = "main" =>
               \A y \in YamlOrders :
                   /\ InClaimedOrder(SortEnvs(y))
                   /\ Len(SortEnvs(y)) = Len(y)
                   /\ {SortEnvs(y)[i] : i \in DOMAIN y} = {y[i] : i \in DOMAIN y}
          /\ Envs = <<"dev", "prod">>
          /\ env_i \in DOMAIN Envs
          /\ "Bootstrap failed" \in reported =>
               /\ boot_exit = 1
               /\ boot_pc = "done"
               /\ "[OK] bootstrap done" \notin reported
          /\ boot_exit = 1 => "Bootstrap failed" \in reported
          /\ boot_exit = 0 =>
               /\ boot_pc = "done"
               /\ env_i = Len(Envs)
               /\ "[OK] bootstrap done" \in reported)
    /\ [][EnvChange /\ QuietAfterFailure]_vars

C29_Witness ==
    /\ boot_exit = 1
    /\ boot_runs = 1
    /\ env_i = 1
    /\ envp = "dev"
    /\ cmds[Len(cmds)].kind = "billing link"
    /\ ~projects["prod"]

----------------------------------------------------------------------------
(* orchestration/src/lakehouse_cli/dataproc.py: the submission pipeline     *)
(* submit_dataproc_serverless_pyspark = validate, upload, build, submit.    *)
(* A dict is a function whose DOMAIN is the set of its keys.                *)

JarsKey == "spark.jars.packages"
TempBucketKey == "spark.bigquery.temporaryGcsBucket"
ExtensionsKey == "spark.sql.extensions"

\* what an exception leaves behind: the call raised, nothing is returned
Exceptions == {"FileNotFoundError", "CalledProcessError", "ValueError"}

\* `str(v).strip() != ""` for the values the model uses
Blank(v) == v \in {"", " "}

\* _get_dataproc_temp_bucket: the first truthy of the three sources
_get_dataproc_temp_bucket(env) ==
    IF ~Falsy(env.dataproc_temp_bucket) THEN env.dataproc_temp_bucket
    ELSE IF ~Falsy(env.buckets_dataproc_temp) THEN env.buckets_dataproc_temp
    ELSE IF ~Falsy(env.dataproc_temp_bucket_field) THEN env.dataproc_temp_bucket_field
    ELSE NoneVal

\* props.update(other): the keys of `other` win
DictUpdate(props, other) == other @@ props

\* the final cleaning: keys whose value is None or blank are dropped
Cleaned(props) ==
    [k \in {x \in DOMAIN props : props[x] # NoneVal /\ ~Blank(props[x])} |-> props[k]]

\* a variant without the two guard rails
build_spark_properties_unguarded(env, extra) ==
    LET props == (JarsKey :> env.iceberg_package)
                 @@ (ExtensionsKey :> "IcebergSparkSessionExtensions")
        temp_bucket == _get_dataproc_temp_bucket(env)
        withTemp == DictUpdate(props, TempBucketKey :> temp_bucket)
    IN  [exc |-> NoneVal, props |-> Cleaned(DictUpdate(withTemp, extra))]

\* build_spark_properties: the cleaned dict, or the exception it raises
build_spark_properties(env, extra) ==
    LET props == (JarsKey :> env.iceberg_package)
                 @@ (ExtensionsKey :> "IcebergSparkSessionExtensions")
        temp_bucket == _get_dataproc_temp_bucket(env)
        withTemp == DictUpdate(props, TempBucketKey :> temp_bucket)
        cleaned == Cleaned(DictUpdate(withTemp, extra))
    IN  IF Falsy(temp_bucket) THEN [exc |-> "ValueError", props |-> <<>>]
        ELSE IF JarsKey \notin DOMAIN cleaned
               THEN [exc |-> "ValueError", props |-> <<>>]
        ELSE [exc |-> NoneVal, props |-> cleaned]

\* batch_id or f"iceberg-{env.env}-{ts}"
BatchIdFinal(b) == IF Falsy(b) THEN "iceberg-dev-ts" ELSE b

DpStep(name, ok) == [step |-> name, ok |-> ok]

dp_raise(exc) ==
    /\ dp_ret' = exc
    /\ dp_pc' = "raised"

\* step 1: the local job file is validated
validate_local_job ==
    /\ dp_pc = "validate"
    /\ dp_trace' = Append(dp_trace, DpStep("validate", dp_file))
    /\ IF ~dp_file
         THEN dp_raise("FileNotFoundError")
         ELSE dp_pc' = "upload" /\ dp_ret' = dp_ret
    /\ UNCHANGED <<dp_file, dp_env, dp_extra, dp_batch_id, dp_props, dp_gcs,
                   dp_batches, dataformVars, bootVars, bucketVars>>

\* the environment may remove the file between the validation and the upload
FileVanishes ==
    /\ dp_pc = "upload"
    /\ dp_file
    /\ dp_file' = FALSE
    /\ UNCHANGED <<dp_env, dp_extra, dp_batch_id, dp_pc, dp_trace, dp_props,
                   dp_gcs, dp_batches, dp_ret, dataformVars, bootVars,
                   bucketVars>>

\* step 3: gcs_upload; `gsutil cp` runs with check=True
gcs_upload ==
    /\ dp_pc = "upload"
    /\ IF ~dp_file
         THEN /\ dp_raise("FileNotFoundError")
              /\ dp_trace' = Append(dp_trace, DpStep("gcs_upload", FALSE))
              /\ dp_gcs' = dp_gcs
         ELSE \E rc \in {0, 1} :
              /\ dp_trace' = Append(dp_trace, DpStep("gsutil cp", rc = 0))
              /\ dp_gcs' = (rc = 0)
              /\ IF rc = 0
                   THEN dp_pc' = "build" /\ dp_ret' = dp_ret
                   ELSE dp_raise("CalledProcessError")
    /\ UNCHANGED <<dp_file, dp_env, dp_extra, dp_batch_id, dp_props,
                   dp_batches, dataformVars, bootVars, bucketVars>>

\* step 4: the properties are built
build_properties ==
    /\ dp_pc = "build"
    /\ LET r == build_spark_properties(dp_env, dp_extra)
       IN  /\ dp_trace' = Append(dp_trace,
                                 DpStep("build_spark_properties", r.exc = NoneVal))
           /\ IF r.exc # NoneVal
                THEN dp_raise(r.exc) /\ dp_props' = dp_props
                ELSE dp_pc' = "submit" /\ dp_ret' = dp_ret /\ dp_props' = r.props
    /\ UNCHANGED <<dp_file, dp_env, dp_extra, dp_batch_id, dp_gcs, dp_batches,
                   dataformVars, bootVars, bucketVars>>

\* step 5: submit_pyspark_batch with check=True, then the SubmitResult. The
\* command waits for the batch: when it fails the batch may exist already.
submit_pyspark_batch ==
    /\ dp_pc = "submit"
    /\ \E rc \in {0, 1}, created \in BOOLEAN :
        /\ rc = 0 => created
        /\ dp_trace' = Append(dp_trace,
               DpStep("gcloud dataproc batches submit pyspark", rc = 0))
        /\ dp_batches' = IF created
                           THEN dp_batches \cup {BatchIdFinal(dp_batch_id)}
                           ELSE dp_batches
        /\ IF rc = 0
             THEN dp_pc' = "returned" /\ dp_ret' = "SubmitResult"
             ELSE dp_raise("CalledProcessError")
    /\ UNCHANGED <<dp_file, dp_env, dp_extra, dp_batch_id, dp_props, dp_gcs,
                   dataformVars, bootVars, bucketVars>>

TempBucketValues == {NoneVal, "tmp-bucket"}

InitDataproc ==
    /\ DataformIdle
    /\ BootIdle
    /\ BucketIdle
    /\ dp_file \in BOOLEAN
    /\ dp_env \in [iceberg_package : {NoneVal, " ", "iceberg-runtime"},
                   dataproc_temp_bucket : TempBucketValues,
                   buckets_dataproc_temp : TempBucketValues,
                   dataproc_temp_bucket_field : TempBucketValues]
    /\ dp_extra \in {<<>>, JarsKey :> "", JarsKey :> "other-runtime"}
    /\ dp_batch_id \in {NoneVal, "b1"}
    /\ dp_pc = "validate"
    /\ dp_trace = <<>>
    /\ dp_props = <<>>
    /\ dp_gcs = FALSE
    /\ dp_batches = {}
    /\ dp_ret = "none"

NextDataproc ==
    \/ validate_local_job
    \/ FileVanishes
    \/ gcs_upload
    \/ build_properties
    \/ submit_pyspark_batch

SpecDataproc == InitDataproc /\ [][NextDataproc]_vars

SubmitCmd == "gcloud dataproc batches submit pyspark"

SubmitIndexes == {i \in 1..Len(dp_trace) : dp_trace[i].step = SubmitCmd}

\* the properties are a successful build: the jars and the temporary bucket
\* the function insists on were there
BuiltSuccessfully ==
    /\ JarsKey \in DOMAIN dp_props
    /\ ~Blank(dp_props[JarsKey])
    /\ ~Falsy(_get_dataproc_temp_bucket(dp_env))

\* C30: the `gcloud dataproc batches submit pyspark` command is issued only
\* after the local job file was validated, the upload to GCS succeeded and
\* the Spark properties were built successfully, in that order; when one of
\* these steps raises, no batch is submitted and no SubmitResult is returned.
C30_SubmitOnlyAfterAllSteps ==
    /\ \A i \in SubmitIndexes :
         /\ i = 4
         /\ dp_trace[1] = DpStep("validate", TRUE)
         /\ dp_trace[2] = DpStep("gsutil cp", TRUE)
         /\ dp_trace[3] = DpStep("build_spark_properties", TRUE)
         /\ dp_gcs
         /\ BuiltSuccessfully
    /\ (\E i \in 1..Len(dp_trace) :
            dp_trace[i].step # SubmitCmd /\ ~dp_trace[i].ok)
         => /\ SubmitIndexes = {}
            /\ dp_batches = {}
            /\ dp_ret \in Exceptions
            /\ dp_pc = "raised"
    /\ dp_batches # {} => SubmitIndexes # {}
    /\ dp_ret = "SubmitResult"
         => /\ Len(dp_trace) = 4
            /\ dp_trace[4] = DpStep(SubmitCmd, TRUE)
            /\ dp_batches = {BatchIdFinal(dp_batch_id)}

\* a job was submitted after all three steps succeeded, with properties
\* whose jars come from the profile's override
C30_Witness ==
    /\ dp_ret = "SubmitResult"
    /\ dp_trace[3] = DpStep("build_spark_properties", TRUE)
    /\ dp_trace[4] = DpStep(SubmitCmd, TRUE)
    /\ dp_env.iceberg_package = " "
    /\ dp_props[JarsKey] = "other-runtime"
    /\ dp_batches = {"iceberg-dev-ts"}
====
